---------------------------- MODULE Spec2Model ----------------------------
(***************************************************************************)
(* A model of libimp's result<T> (include/libimp/result.h) and of libpmr's *)
(* new_delete_resource (src/libpmr/memory_resource.cpp).                   *)
(*                                                                         *)
(* Integer widths are scaled down: error_code_t, a 64-bit unsigned integer *)
(* in the library, has CodeBits bits here, and the payload types are the   *)
(* signed and unsigned integers of CodeBits and CodeBits - 1 bits.  All    *)
(* conversions are the C++ ones taken modulo 2^CodeBits instead of 2^64.   *)
(***************************************************************************)
EXTENDS Integers, Sequences, FiniteSets, TLC

VARIABLES
  T,        \* the payload type the result<T> template is instantiated with
  code_,    \* result::code_ of the two result objects, lhs and rhs
  args,     \* the constructor arguments each object was built from
  cmp,      \* what operator== and operator!= last returned for (lhs, rhs)
  build,    \* the preprocessor configuration memory_resource.cpp is built in
  heap,     \* the C heap: for every address, the block living there, if any
  corrupt,  \* TRUE once a call has had undefined behaviour on the heap
  last      \* the allocator call that ran last: arguments, path and outcome

resultVars == <<T, code_, args, cmp>>
allocVars == <<build, heap, corrupt, last>>
vars == <<T, code_, args, cmp, build, heap, corrupt, last>>

(***************************************************************************)
(* Bounds.                                                                 *)
(***************************************************************************)
CodeBits == 3       \* width of error_code_t in the model (64 in the library)
MaxAddr == 2        \* non-null pointer values are 1..MaxAddr

(***************************************************************************)
(* error_code (libimp/error.h).                                            *)
(***************************************************************************)
CodeModulus == 2 ^ CodeBits

\* static_cast<error_code_t>(n): conversion to the unsigned type, modulo 2^w.
static_cast_error_code_t(n) == n % CodeModulus

\* error_number_limit: the largest error_code_t, error_code_t(-1).
error_number_limit == CodeModulus - 1

\* error_code{}: the default-constructed error code, "no error".
error_code_default == 0

\* error_code(error_code_t e): the implicit conversion from a number.
error_code(n) == static_cast_error_code_t(n)

\* error_code::operator bool: true for anything but "no error".
error_code_bool(ec) == ec # error_code_default

ErrorCodes == 0 .. (CodeModulus - 1)

(***************************************************************************)
(* Payload types.                                                          *)
(***************************************************************************)
VoidT == [kind |-> "void", signed |-> FALSE, bits |-> 0]
PointerT == [kind |-> "pointer", signed |-> FALSE, bits |-> 0]
IntegralT(s, b) == [kind |-> "integral", signed |-> s, bits |-> b]
NarrowBits == CodeBits - 1
IntegralTypes == {IntegralT(s, b) : s \in BOOLEAN, b \in {NarrowBits, CodeBits}}
Types == {VoidT, PointerT} \cup IntegralTypes

nullptr == 0

\* The values of type t.
Values(t) ==
  CASE t.kind = "integral" /\ t.signed -> (0 - 2 ^ (t.bits - 1)) .. (2 ^ (t.bits - 1) - 1)
    [] t.kind = "integral" /\ ~t.signed -> 0 .. (2 ^ t.bits - 1)
    [] t.kind = "pointer" -> nullptr .. MaxAddr
    [] OTHER -> {}

(***************************************************************************)
(* generic_traits<T>: storage_t is std::tuple<T, error_code>.              *)
(***************************************************************************)
\* A default initializer that stores "no error".
generic_init_code_default_mut == <<0, error_code_default>>

generic_init_code_default == <<0, error_code(error_number_limit)>>

\* A (value, ec) initializer that drops the code.
generic_init_code_value_ec_mut(value, ec) == <<value, error_code_default>>

generic_init_code_value_ec(value, ec) == <<value, ec>>

generic_init_code_value(value) == <<value, error_code_default>>

generic_init_code_ec(ec) == <<0, ec>>

generic_get_value(code) == code[1]

\* A get_ok that takes only the uninitialized code for a failure.
generic_get_ok_mut(code) == code[2] # error_number_limit

generic_get_ok(code) == ~error_code_bool(code[2])

generic_get_error(code) == code[2]

(***************************************************************************)
(* default_traits<void>: storage_t is the error_code alone.                *)
(***************************************************************************)
void_init_code_default == <<error_code(error_number_limit)>>

void_init_code_ec(ec) == <<ec>>

void_get_ok(code) == ~error_code_bool(code[1])

void_get_error(code) == code[1]

(***************************************************************************)
(* default_traits<integral T>.                                             *)
(***************************************************************************)
integral_default_value == 0

\* A (value, ok) initializer without the tie-break on the zero value.
integral_init_code_value_ok_mut(value, ok) ==
  <<value, error_code(IF ok THEN 0 ELSE static_cast_error_code_t(value))>>

\* The conditional expression has type error_code_t (the common type of int,
\* error_code_t and T), so value is converted modulo 2^w.
integral_init_code_value_ok(value, ok) ==
  <<value,
    error_code(static_cast_error_code_t(
      IF ok THEN 0
      ELSE IF value = integral_default_value
             THEN error_number_limit
             ELSE static_cast_error_code_t(value)))>>

(***************************************************************************)
(* default_traits<pointer T>.                                              *)
(***************************************************************************)
pointer_init_code_null_ec(ec) == <<nullptr, ec>>

\* A (nullptr) initializer that stores "no error".
pointer_init_code_null_mut == <<nullptr, error_code_default>>

pointer_init_code_null == <<nullptr, error_code(0 - 1)>>

pointer_default_value == nullptr

(***************************************************************************)
(* class result<T, TypeTraits> and its specialisation for void.            *)
(***************************************************************************)
value(t, code) == generic_get_value(code)

ok(t, code) == IF t.kind = "void" THEN void_get_ok(code) ELSE generic_get_ok(code)

error(t, code) ==
  IF t.kind = "void" THEN void_get_error(code) ELSE generic_get_error(code)

operator_deref(t, code) == value(t, code)

operator_bool(t, code) == ok(t, code)

\* An operator== that compares the codes alone.
operator_eq_mut(lhs, rhs) == lhs[Len(lhs)] = rhs[Len(rhs)]

operator_eq(lhs, rhs) == lhs = rhs

operator_ne(lhs, rhs) == ~operator_eq(lhs, rhs)

(***************************************************************************)
(* The two result objects and the calls made on them.                      *)
(***************************************************************************)
Slots == {"lhs", "rhs"}

NoArgs == [shape |-> "none", value |-> 0, ec |-> 0, ok |-> FALSE]
Args(shape, v, ec, b) == [shape |-> shape, value |-> v, ec |-> ec, ok |-> b]

NotCompared == [done |-> FALSE, eq |-> FALSE, ne |-> FALSE]

\* The objects not yet constructed.
Unbuilt == {s \in Slots : args[s].shape = "none"}

\* result(A &&... args): the init_code overload that the argument types
\* select fills code_.  An object is constructed once and never assigned to.
Construct(s, a, storage) ==
  /\ args[s].shape = "none"
  /\ code_' = [code_ EXCEPT ![s] = storage]
  /\ args' = [args EXCEPT ![s] = a]
  /\ cmp' = NotCompared
  /\ UNCHANGED <<T, allocVars>>

\* result<T>()
ResultDefault ==
  \E s \in Unbuilt :
    /\ T.kind # "void"
    /\ Construct(s, Args("default", 0, 0, FALSE), generic_init_code_default)

\* result<T>(value, ec), value of type T (a null-valued T included)
ResultValueEc ==
  \E s \in Unbuilt, v \in Values(T), ec \in ErrorCodes :
    /\ T.kind # "void"
    /\ Construct(s, Args("value_ec", v, ec, FALSE), generic_init_code_value_ec(v, ec))

\* result<T>(value), value of type T (a null-valued T included)
ResultValue ==
  \E s \in Unbuilt, v \in Values(T) :
    /\ T.kind # "void"
    /\ Construct(s, Args("value", v, 0, FALSE), generic_init_code_value(v))

\* result<T>(ec)
ResultEc ==
  \E s \in Unbuilt, ec \in ErrorCodes :
    /\ T.kind # "void"
    /\ Construct(s, Args("ec", 0, ec, FALSE), generic_init_code_ec(ec))

\* result<T>(value, ok) for integral T
ResultValueOk ==
  \E s \in Unbuilt, v \in Values(T), b \in BOOLEAN :
    /\ T.kind = "integral"
    /\ Construct(s, Args("value_ok", v, 0, b), integral_init_code_value_ok(v, b))

\* result<T>(nullptr, ec) for pointer T
ResultNullEc ==
  \E s \in Unbuilt, ec \in ErrorCodes :
    /\ T.kind = "pointer"
    /\ Construct(s, Args("null_ec", nullptr, ec, FALSE), pointer_init_code_null_ec(ec))

\* result<T>(nullptr) for pointer T
ResultNull ==
  \E s \in Unbuilt :
    /\ T.kind = "pointer"
    /\ Construct(s, Args("null", nullptr, 0, FALSE), pointer_init_code_null)

\* result<void>()
ResultVoidDefault ==
  \E s \in Unbuilt :
    /\ T.kind = "void"
    /\ Construct(s, Args("default", 0, 0, FALSE), void_init_code_default)

\* result<void>(ec)
ResultVoidEc ==
  \E s \in Unbuilt, ec \in ErrorCodes :
    /\ T.kind = "void"
    /\ Construct(s, Args("ec", 0, ec, FALSE), void_init_code_ec(ec))

\* lhs == rhs and lhs != rhs
Compare ==
  /\ \A s \in Slots : args[s].shape # "none"
  /\ ~cmp.done
  /\ cmp' = [done |-> TRUE,
             eq |-> operator_eq(code_["lhs"], code_["rhs"]),
             ne |-> operator_ne(code_["lhs"], code_["rhs"])]
  /\ UNCHANGED <<T, code_, args, allocVars>>

(***************************************************************************)
(* libpmr: new_delete_resource over the C heap.                            *)
(*                                                                         *)
(* The C allocation routines report failure by their return value and      *)
(* std::free reports nothing, so the catch handlers of allocate and        *)
(* deallocate have no run that enters them.  A run ends at the first call  *)
(* with undefined behaviour: nothing is defined of the program after it.   *)
(***************************************************************************)
MaxBlocks == 2      \* heap addresses are 1..MaxBlocks
MaxBytes == 2       \* requested sizes are 0..MaxBytes

\* alignof(std::max_align_t) of the platform.
alignof_max_align_t == 16

\* LIBIMP_CPP_17 defined; else LIBIMP_OS_WIN defined; else neither.
Builds == {"cpp17", "win", "posix"}

Addresses == 1 .. MaxBlocks
Sizes == 0 .. MaxBytes
Alignments == {0, 3, alignof_max_align_t, 2 * alignof_max_align_t}

NoBlock == [by |-> "none", bytes |-> 0, alignment |-> 0]
Block(by, bytes, alignment) == [by |-> by, bytes |-> bytes, alignment |-> alignment]

NoCall == [op |-> "none", p |-> 0, bytes |-> 0, alignment |-> 0, ret |-> 0,
           path |-> "none", failed |-> FALSE, logged |-> 0, freed |-> FALSE]

\* a & b on std::size_t
RECURSIVE BitAnd(_, _)
BitAnd(a, b) ==
  IF a = 0 \/ b = 0 THEN 0
  ELSE (a % 2) * (b % 2) + 2 * BitAnd(a \div 2, b \div 2)

\* A verify_args without the test for alignment == 0.
verify_args_mut(bytes, alignment) ==
  IF bytes = 0 THEN [pass |-> FALSE, logged |-> 0]
  ELSE IF BitAnd(alignment, alignment - 1) # 0
         THEN [pass |-> FALSE, logged |-> 1]
         ELSE [pass |-> TRUE, logged |-> 0]

\* verify_args: whether the arguments pass, and the log.error calls it made.
verify_args(bytes, alignment) ==
  IF bytes = 0 THEN [pass |-> FALSE, logged |-> 0]
  ELSE IF alignment = 0 \/ BitAnd(alignment, alignment - 1) # 0
         THEN [pass |-> FALSE, logged |-> 1]
         ELSE [pass |-> TRUE, logged |-> 0]

\* The routine allocate obtains the storage from.
allocate_path(b, alignment) ==
  IF alignment <= alignof_max_align_t THEN "malloc"
  ELSE IF b = "cpp17" THEN "aligned_alloc"
  ELSE IF b = "win" THEN "_aligned_malloc"
  ELSE "posix_memalign"

\* The log.error calls allocate makes when its routine fails.
allocate_failure_logged(path) == IF path = "posix_memalign" THEN 1 ELSE 0

\* A deallocate that does not test the alignment against max_align_t.
deallocate_path_mut(b, alignment) ==
  IF b = "cpp17" THEN "free"
  ELSE IF b = "win" THEN "_aligned_free"
  ELSE "free"

\* The routine deallocate releases the storage with.
deallocate_path(b, alignment) ==
  IF b = "cpp17" THEN "free"
  ELSE IF alignment <= alignof_max_align_t THEN "free"
  ELSE IF b = "win" THEN "_aligned_free"
  ELSE "free"

\* Whether a block obtained from routine `by` may be released with `with`.
Releases(with, by) ==
  IF with = "_aligned_free" THEN by = "_aligned_malloc"
  ELSE by \in {"malloc", "aligned_alloc", "posix_memalign"}

\* new_delete_resource::allocate(bytes, alignment)
Allocate ==
  \E bytes \in Sizes, alignment \in Alignments :
    LET v == verify_args(bytes, alignment)
        path == allocate_path(build, alignment)
        call == [NoCall EXCEPT !.op = "allocate", !.bytes = bytes,
                               !.alignment = alignment]
    IN  /\ ~corrupt
        /\ UNCHANGED <<resultVars, build, corrupt>>
        /\ IF ~v.pass
             THEN /\ heap' = heap
                  /\ last' = [call EXCEPT !.ret = nullptr, !.path = "rejected",
                                          !.logged = v.logged]
             ELSE \/ \* the routine fails
                     /\ heap' = heap
                     /\ last' = [call EXCEPT !.ret = nullptr, !.path = path,
                                             !.failed = TRUE,
                                             !.logged = allocate_failure_logged(path)]
                  \/ \* the routine returns a block that was free
                     \E a \in Addresses :
                       /\ heap[a] = NoBlock
                       /\ heap' = [heap EXCEPT ![a] = Block(path, bytes, alignment)]
                       /\ last' = [call EXCEPT !.ret = a, !.path = path]

\* new_delete_resource::deallocate(p, bytes, alignment)
Deallocate ==
  \E p \in {nullptr} \cup Addresses, bytes \in Sizes, alignment \in Alignments :
    LET v == verify_args(bytes, alignment)
        path == deallocate_path(build, alignment)
        call == [NoCall EXCEPT !.op = "deallocate", !.p = p, !.bytes = bytes,
                               !.alignment = alignment]
    IN  /\ ~corrupt
        /\ UNCHANGED <<resultVars, build>>
        /\ IF p = nullptr
             THEN /\ UNCHANGED <<heap, corrupt>>
                  /\ last' = [call EXCEPT !.path = "rejected"]
           ELSE IF ~v.pass
             THEN /\ UNCHANGED <<heap, corrupt>>
                  /\ last' = [call EXCEPT !.path = "rejected", !.logged = v.logged]
           ELSE IF heap[p] # NoBlock /\ Releases(path, heap[p].by)
             THEN /\ heap' = [heap EXCEPT ![p] = NoBlock]
                  /\ UNCHANGED corrupt
                  /\ last' = [call EXCEPT !.path = path, !.freed = TRUE]
             ELSE \* p is not a live block of this routine: undefined behaviour,
                  \* after which any of the live blocks may be gone
                  /\ corrupt' = TRUE
                  /\ \E gone \in SUBSET Addresses :
                       heap' = [a \in Addresses |->
                                  IF a \in gone THEN NoBlock ELSE heap[a]]
                  /\ last' = [call EXCEPT !.path = path]

\* The allocator is idle in the specification of result<T>.
AllocIdle ==
  /\ build = "posix"
  /\ heap = [a \in Addresses |-> NoBlock]
  /\ corrupt = FALSE
  /\ last = NoCall

\* No result is built in the specification of the allocator.
ResultIdle ==
  /\ T = VoidT
  /\ code_ = [s \in Slots |-> <<>>]
  /\ args = [s \in Slots |-> NoArgs]
  /\ cmp = NotCompared

Init ==
  /\ T \in Types
  /\ code_ = [s \in Slots |-> <<>>]
  /\ args = [s \in Slots |-> NoArgs]
  /\ cmp = NotCompared
  /\ AllocIdle

Next ==
  \/ ResultDefault
  \/ ResultValueEc
  \/ ResultValue
  \/ ResultEc
  \/ ResultValueOk
  \/ ResultNullEc
  \/ ResultNull
  \/ ResultVoidDefault
  \/ ResultVoidEc
  \/ Compare

Spec == Init /\ [][Next]_vars

AllocInit ==
  /\ ResultIdle
  /\ build \in Builds
  /\ heap = [a \in Addresses |-> NoBlock]
  /\ corrupt = FALSE
  /\ last = NoCall

AllocNext ==
  \/ Allocate
  \/ Deallocate

AllocSpec == AllocInit /\ [][AllocNext]_vars

(***************************************************************************)
(* Properties of result<T>, checked under Spec.                            *)
(***************************************************************************)
Built(s) == args[s].shape # "none"

\* The "no error" and "uninitialized" codes, the all-ones code that -1
\* converts to, and an integer read as an unsigned number of CodeBits bits.
NoError == error_code_default
Uninitialized == error_number_limit
AllOnes == 2 ^ CodeBits - 1
AsError(v) == IF v >= 0 THEN v ELSE v + 2 ^ CodeBits

\* C1: for every constructed result, of every payload type and initializer
\* shape, ok() is true exactly when error() is the no-error code, and the
\* boolean conversion returns what ok() returns.
C1_OkIffNoError ==
  \A s \in Slots :
    Built(s) =>
      /\ ok(T, code_[s]) = (error(T, code_[s]) = NoError)
      /\ operator_bool(T, code_[s]) = ok(T, code_[s])

C1_Witness ==
  /\ args["lhs"].shape = "value_ok" /\ ~ok(T, code_["lhs"])
  /\ args["rhs"].shape = "value" /\ operator_bool(T, code_["rhs"])

\* C2: an integral result built from (value, ok) returns the supplied value;
\* with ok true it is ok() with the no-error code; with ok false and value
\* zero it is not ok() and holds the uninitialized code; with ok false and
\* value non-zero it is not ok() and holds the value read as an error code.
C2_IntegralValueOk ==
  \A s \in Slots :
    args[s].shape = "value_ok" =>
      LET v == args[s].value
          b == args[s].ok
          r == code_[s]
      IN  /\ value(T, r) = v
          /\ b => (ok(T, r) /\ error(T, r) = NoError)
          /\ (~b /\ v = 0) => (~ok(T, r) /\ error(T, r) = Uninitialized)
          /\ (~b /\ v # 0) => (~ok(T, r) /\ error(T, r) = AsError(v))

C2_Witness ==
  /\ args["lhs"].shape = "value_ok" /\ ~args["lhs"].ok /\ args["lhs"].value < 0
  /\ args["rhs"].shape = "value_ok" /\ ~args["rhs"].ok /\ args["rhs"].value = 0

\* C3, as claimed: a pointer result built from a null pointer alone, the
\* null literal or a null-valued pointer of type T, stores (null, -1) and is
\* not ok(); built from (null, code) it stores the code.
C3_AnyNullAlone ==
  \A s \in Slots :
    T.kind = "pointer" =>
      /\ (args[s].shape \in {"null", "value"} /\ args[s].value = nullptr) =>
           /\ value(T, code_[s]) = nullptr
           /\ error(T, code_[s]) = AllOnes
           /\ ~ok(T, code_[s])
      /\ args[s].shape = "null_ec" =>
           /\ value(T, code_[s]) = nullptr
           /\ error(T, code_[s]) = args[s].ec

\* C3, amended: only the null literal stores (null, -1); a null-valued
\* pointer of type T given alone is a value and stores (null, no error),
\* which is ok(); (null, code) stores the code.
C3_NullLiteralAlone ==
  \A s \in Slots :
    T.kind = "pointer" =>
      /\ args[s].shape = "null" =>
           /\ value(T, code_[s]) = nullptr
           /\ error(T, code_[s]) = AllOnes
           /\ ~ok(T, code_[s])
      /\ (args[s].shape = "value" /\ args[s].value = nullptr) =>
           /\ value(T, code_[s]) = nullptr
           /\ error(T, code_[s]) = NoError
           /\ ok(T, code_[s])
      /\ args[s].shape = "null_ec" =>
           /\ value(T, code_[s]) = nullptr
           /\ error(T, code_[s]) = args[s].ec

C3_Witness ==
  /\ T.kind = "pointer"
  /\ args["lhs"].shape = "null"
  /\ args["rhs"].shape = "value" /\ args["rhs"].value = nullptr

\* C4: a default-constructed result is not ok(), holds the uninitialized
\* code and, for a non-void T, the zero value of T; a result<void> built
\* from the no-error code is ok().
C4_DefaultConstructed ==
  \A s \in Slots :
    /\ args[s].shape = "default" =>
         /\ ~ok(T, code_[s])
         /\ error(T, code_[s]) = Uninitialized
         /\ T.kind = "integral" => value(T, code_[s]) = 0
         /\ T.kind = "pointer" => value(T, code_[s]) = nullptr
    /\ (T.kind = "void" /\ args[s].shape = "ec" /\ args[s].ec = NoError) =>
         ok(T, code_[s])

C4_Witness ==
  /\ T.kind = "pointer"
  /\ args["lhs"].shape = "default"
  /\ args["rhs"].shape = "value" /\ code_["rhs"] # code_["lhs"]

\* C5: a result built from (v, c) reads back v and c; built from v alone it
\* reads back v and the no-error code and is ok(); built from c alone it
\* reads back the zero value of T and c.  The value given with a flag and
\* the code given with the null literal are read back as given.
C5_RoundTrip ==
  \A s \in Slots :
    LET a == args[s]
        r == code_[s]
    IN  /\ a.shape = "value_ec" => (value(T, r) = a.value /\ error(T, r) = a.ec)
        /\ a.shape = "value" =>
             (value(T, r) = a.value /\ error(T, r) = NoError /\ ok(T, r))
        /\ a.shape = "ec" =>
             /\ error(T, r) = a.ec
             /\ T.kind # "void" => value(T, r) = 0
        /\ a.shape = "value_ok" => value(T, r) = a.value
        /\ a.shape = "null_ec" => error(T, r) = a.ec

C5_Witness ==
  /\ args["lhs"].shape = "value_ec"
  /\ args["lhs"].value # 0
  /\ args["lhs"].ec \notin {NoError, Uninitialized}
  /\ args["rhs"].shape = "ec" /\ args["rhs"].ec # NoError
  /\ T.kind # "void"

\* C6: two results of one type are equal exactly when their values (for a
\* non-void T) and their codes are equal, and != is the negation of ==; so
\* (v, true) differs from (v, false), and two ok() results with different
\* values differ.
StoredAlike ==
  /\ error(T, code_["lhs"]) = error(T, code_["rhs"])
  /\ T.kind # "void" => value(T, code_["lhs"]) = value(T, code_["rhs"])

C6_Equality ==
  cmp.done =>
    /\ cmp.eq = StoredAlike
    /\ cmp.ne = ~cmp.eq
    /\ ( /\ args["lhs"].shape = "value_ok" /\ args["rhs"].shape = "value_ok"
         /\ args["lhs"].value = args["rhs"].value
         /\ args["lhs"].ok /\ ~args["rhs"].ok ) => (~cmp.eq /\ cmp.ne)
    /\ ( /\ T.kind # "void"
         /\ ok(T, code_["lhs"]) /\ ok(T, code_["rhs"])
         /\ value(T, code_["lhs"]) # value(T, code_["rhs"]) ) => (~cmp.eq /\ cmp.ne)

C6_Witness ==
  /\ cmp.done
  /\ args["lhs"].shape = "value_ok" /\ args["rhs"].shape = "value_ok"
  /\ args["lhs"].value = args["rhs"].value /\ args["lhs"].value # 0
  /\ args["lhs"].ok /\ ~args["rhs"].ok

\* C10, as claimed: an integral result built from (value, false) holds the
\* uninitialized code exactly when value is zero, and no non-zero value is
\* stored as the no-error code.
C10_OnlyZeroIsUninitialized ==
  \A s \in Slots :
    (args[s].shape = "value_ok" /\ ~args[s].ok) =>
      /\ (error(T, code_[s]) = Uninitialized) <=> (args[s].value = 0)
      /\ args[s].value # 0 => error(T, code_[s]) # NoError

(***************************************************************************)
(* Properties of new_delete_resource, checked under AllocSpec.             *)
(***************************************************************************)
IsPowerOfTwo(n) == \E k \in 0 .. 16 : n = 2 ^ k
ValidArgs(bytes, alignment) == bytes > 0 /\ IsPowerOfTwo(alignment)
Live(h, a) == h[a].by # "none"

\* C7: allocate with bytes = 0 or an alignment that is no power of two
\* returns null and leaves the heap as it was; deallocate with a null p,
\* bytes = 0 or such an alignment leaves the heap as it was, also when p is
\* a live block.
C7_RejectsInvalid ==
  [][ /\ (last'.op = "allocate" /\ ~ValidArgs(last'.bytes, last'.alignment)) =>
           (last'.ret = nullptr /\ heap' = heap /\ ~corrupt')
      /\ ( /\ last'.op = "deallocate"
           /\ (last'.p = nullptr \/ ~ValidArgs(last'.bytes, last'.alignment)) ) =>
           (heap' = heap /\ ~last'.freed /\ ~corrupt') ]_vars

C7_Witness ==
  /\ last.op = "deallocate"
  /\ last.p # nullptr /\ Live(heap, last.p)
  /\ last.bytes = heap[last.p].bytes
  /\ last.alignment = 3

\* C8, as claimed: when allocate is called with valid arguments and its
\* allocation routine fails, it returns null and has logged a diagnostic.
C8_FailureIsLogged ==
  ( /\ last.op = "allocate"
    /\ ValidArgs(last.bytes, last.alignment)
    /\ last.failed ) => (last.ret = nullptr /\ last.logged > 0)

\* C9: a block that allocate returned for valid (bytes, alignment) is free
\* before the call and live after it, and deallocate with the same bytes
\* and alignment takes exactly that block out of the heap; no other block
\* changes and neither call logs a diagnostic.
C9_AllocateThenRelease ==
  [][ /\ (last'.op = "allocate" /\ last'.ret # nullptr) =>
           /\ ValidArgs(last'.bytes, last'.alignment)
           /\ ~Live(heap, last'.ret)
           /\ Live(heap', last'.ret)
           /\ heap'[last'.ret].bytes = last'.bytes
           /\ heap'[last'.ret].alignment = last'.alignment
           /\ \A a \in Addresses \ {last'.ret} : heap'[a] = heap[a]
           /\ last'.logged = 0
      /\ ( /\ last'.op = "deallocate" /\ last'.p # nullptr
           /\ Live(heap, last'.p)
           /\ heap[last'.p].bytes = last'.bytes
           /\ heap[last'.p].alignment = last'.alignment ) =>
           /\ ~Live(heap', last'.p)
           /\ \A a \in Addresses \ {last'.p} : heap'[a] = heap[a]
           /\ last'.freed
           /\ last'.logged = 0
           /\ ~corrupt' ]_vars

C9_Witness ==
  /\ last.op = "deallocate" /\ last.freed
  /\ last.alignment > alignof_max_align_t
  /\ \E a \in Addresses \ {last.p} : Live(heap, a)

=============================================================================
